---------------------------- MODULE Spec2Model ----------------------------
(***************************************************************************)
(* Model of createcsvs.py: categorise_paths (path classifier),             *)
(* convert_units (coordinate mapper) and the batch loop of main.           *)
(*                                                                         *)
(* A point (a Python complex number) is a pair <<real, imag>>; a segment   *)
(* is a record [start, end]; a path is a sequence of segments.             *)
(* Coordinates are integers; quotients are exact rationals <<num, den>>    *)
(* in lowest terms with den > 0.                                           *)
(*                                                                         *)
(* Python floats are modelled by these exact values.  assert statements    *)
(* are executed (the interpreter's default).  The --plots output, the      *)
(* creation of the output folder and the "%.3f" formatting of to_csv are   *)
(* not modelled: csvs holds result_df as handed to to_csv.                 *)
(***************************************************************************)
EXTENDS Integers, Sequences, FiniteSets

VARIABLES
    cp_paths,   \* categorise_paths: argument `paths`
    cp_ret,     \* categorise_paths: outcome (exception or returned triple)
    cu_args,    \* convert_units: arguments (trend, line_y, xlim, yspan, xspan)
    cu_ret,     \* convert_units: outcome (exception or returned list)
    listing,    \* main: sorted(os.listdir(input_folder)), the paths of each file
    date_df,    \* main: the date lookup frame, rows [index, date]
    cursor,     \* main: position of the for loop in listing
    csvs,       \* main: the frames written by to_csv, per position in listing
    log,        \* main: files reported as "ERROR for <file>, skipping"
    state       \* main: "running", "done", or "aborted" (an exception left main)

vars == <<cp_paths, cp_ret, cu_args, cu_ret, listing, date_df, cursor, csvs, log, state>>

-----------------------------------------------------------------------------
(* Bounds of the model *)

MaxSingles == 6     \* single-segment paths in one classifier input
MaxSegs == 3        \* segments of one trend path
MaxPts == 2         \* points of one convert_units input
MaxFiles == 2       \* files in the input folder

-----------------------------------------------------------------------------
(* Arithmetic helpers *)

Abs(n) == IF n < 0 THEN -n ELSE n

RECURSIVE Gcd(_, _)
Gcd(a, b) == IF b = 0 THEN a ELSE Gcd(b, a % b)

\* The rational n/d (d # 0) in lowest terms with a positive denominator.
Rat(n, d) ==
    LET g == Gcd(Abs(n), Abs(d))
        s == IF d < 0 THEN -1 ELSE 1
    IN  <<(s * n) \div g, (s * d) \div g>>

RInt(n) == <<n, 1>>
RMul(p, q) == Rat(p[1] * q[1], p[2] * q[2])
RDiv(p, q) == Rat(p[1] * q[2], p[2] * q[1])
RIsZero(p) == p[1] = 0

\* Python's round() on a float: to the nearest integer, ties to the even one.
round(q) ==
    LET fl == q[1] \div q[2]
        r2 == 2 * (q[1] - fl * q[2])
    IN  IF r2 < q[2] THEN fl
        ELSE IF r2 > q[2] THEN fl + 1
        ELSE IF fl % 2 = 0 THEN fl ELSE fl + 1

\* Python's sorted() on numbers: ascending insertion.
RECURSIVE Insert(_, _)
Insert(v, s) ==
    IF s = <<>> THEN <<v>>
    ELSE IF v < Head(s) THEN <<v>> \o s
    ELSE <<Head(s)>> \o Insert(v, Tail(s))

RECURSIVE sorted(_)
sorted(s) == IF s = <<>> THEN <<>> ELSE Insert(Head(s), sorted(Tail(s)))

Reverse(s) == [i \in 1..Len(s) |-> s[Len(s) + 1 - i]]

\* sorted(..., reverse=True)
sorted_reverse(s) == Reverse(sorted(s))

\* All sequences over S of length lo..hi.
SeqsOf(S, lo, hi) == UNION {[1..n -> S] : n \in lo..hi}

-----------------------------------------------------------------------------
(* categorise_paths *)

real(p) == p[1]
imag(p) == p[2]

Abs2(p) == p[1] * p[1] + p[2] * p[2]

RtolInv == 100000

\* np.isclose(a, b): abs(a - b) <= atol + rtol * abs(b), rtol = 1e-5,
\* atol = 1e-8.  On integer coordinates abs(a - b) is 0 or at least 1, and the
\* absolute tolerance 1e-8 cannot make up a difference of 1, so the test is
\* a = b, or abs(b)^2 / abs(a - b)^2 >= 1 / rtol^2.
isclose(a, b) ==
    LET d2 == Abs2(<<a[1] - b[1], a[2] - b[2]>>)
    IN  \/ d2 = 0
        \/ d2 > 0 /\ ((Abs2(b) \div d2) \div RtolInv) >= RtolInv

single_paths(paths) == SelectSeq(paths, LAMBDA path : Len(path) = 1)

\* line 111: sorted start.imag of the single-segment paths
y_candidates(paths) ==
    LET s == single_paths(paths)
    IN  sorted([i \in 1..Len(s) |-> imag(s[i][1].start)])

\* Variant keeping the three smallest of five candidates.
reduce5_first3(y) == IF Len(y) = 5 THEN <<y[1], y[2], y[3]>> ELSE y

\* lines 113-114
reduce5(y) == IF Len(y) = 5 THEN <<y[1], y[3], y[Len(y)]>> ELSE y

\* Variant taking the limits from the single-segment path at index 0.
xlim_of_first(paths) ==
    LET s == single_paths(paths)
    IN  <<real(s[1][1].start), real(s[1][1].end)>>

\* line 118: (start.real, end.real) of the single-segment path at index 1
xlim_of(paths) ==
    LET s == single_paths(paths)
    IN  <<real(s[2][1].start), real(s[2][1].end)>>

\* line 120
trends_of(paths) == SelectSeq(paths, LAMBDA path : Len(path) > 1)

\* Variant of the assertion that accepts several trend paths.
trends_ok_nonempty(trends) == Len(trends) >= 1

\* line 123: assert len(trends) == 1
trends_ok(trends) == Len(trends) = 1

\* Variant of the loop that never appends end_seg.end.
RECURSIVE mid_points_no_gap_end(_, _)
mid_points_no_gap_end(trend, k) ==
    IF k >= Len(trend) THEN <<>>
    ELSE <<trend[k + 1].start>> \o mid_points_no_gap_end(trend, k + 1)

\* lines 127-132: the loop over zip(trend[:-1], trend[1:])
RECURSIVE mid_points(_, _)
mid_points(trend, k) ==
    IF k >= Len(trend) THEN <<>>
    ELSE (IF ~isclose(trend[k].end, trend[k + 1].start)
          THEN <<trend[k].end>> ELSE <<>>)
         \o <<trend[k + 1].start>>
         \o mid_points(trend, k + 1)

\* Variant without the last segment's end.
points_of_no_end(trend) == <<trend[1].start>> \o mid_points(trend, 1)

\* line 134
points_of(trend) ==
    <<trend[1].start>> \o mid_points(trend, 1) \o <<trend[Len(trend)].end>>

NoRet == [exc |-> "pending", xlim |-> <<>>, y_lines |-> <<>>, points |-> <<>>]
Raise(e) == [NoRet EXCEPT !.exc = e]

\* The outcome of categorise_paths(paths): exc = "none" and the returned
\* triple, or the exception raised (assert statements are executed).
categorise_paths(paths) ==
    LET y_lines == reduce5(y_candidates(paths))
    IN  IF Len(y_lines) = 3
        THEN LET xlim == xlim_of(paths)
                 trends == trends_of(paths)
             IN  IF ~trends_ok(trends) THEN Raise("AssertionError")
                 ELSE [exc |-> "none", xlim |-> xlim,
                       y_lines |-> sorted_reverse(y_lines),
                       points |-> points_of(trends[1])]
        ELSE Raise("ValueError")

-----------------------------------------------------------------------------
(* convert_units *)

\* line 157
x_scale_of(xlim) == xlim[2] - xlim[1]

\* line 160: (abs(ymax - ymid) + abs(ymid - ymin)) / 2
y_scale_of(line_y) ==
    Rat(Abs(line_y[1] - line_y[2]) + Abs(line_y[2] - line_y[3]), 2)

\* Variant without the offset 1.
x_out_no_offset(x, xmin, x_scale, xspan) ==
    round(RMul(RInt(xspan), Rat(x - xmin, x_scale)))

\* line 167: 1 + round(xspan * ((x - xmin) / x_scale)), x_scale # 0
x_out(x, xmin, x_scale, xspan) ==
    1 + round(RMul(RInt(xspan), Rat(x - xmin, x_scale)))

\* Variant with the sign of the difference reversed.
y_out_flipped(y, ymid, y_scale, yspan) ==
    RMul(RInt(yspan), RDiv(RInt(y - ymid), y_scale))

\* line 168: yspan * ((ymid - y) / y_scale), y_scale # 0
y_out(y, ymid, y_scale, yspan) ==
    RMul(RInt(yspan), RDiv(RInt(ymid - y), y_scale))

\* Variant of the loop that drops a point whose day index repeats the
\* previous point's.
RECURSIVE trend_plot_coords_dedup(_, _, _, _, _, _)
trend_plot_coords_dedup(trend, k, line_y, xlim, yspan, xspan) ==
    IF k > Len(trend) THEN <<>>
    ELSE (IF k > 1 /\ x_out(real(trend[k]), xlim[1], x_scale_of(xlim), xspan)
                      = x_out(real(trend[k - 1]), xlim[1], x_scale_of(xlim), xspan)
          THEN <<>>
          ELSE <<  <<x_out(real(trend[k]), xlim[1], x_scale_of(xlim), xspan),
                     y_out(imag(trend[k]), line_y[2], y_scale_of(line_y), yspan)>>  >>)
         \o trend_plot_coords_dedup(trend, k + 1, line_y, xlim, yspan, xspan)

\* lines 162-170: the loop appending one (x_out, y_out) per point
RECURSIVE trend_plot_coords(_, _, _, _, _, _)
trend_plot_coords(trend, k, line_y, xlim, yspan, xspan) ==
    IF k > Len(trend) THEN <<>>
    ELSE <<  <<x_out(real(trend[k]), xlim[1], x_scale_of(xlim), xspan),
               y_out(imag(trend[k]), line_y[2], y_scale_of(line_y), yspan)>>  >>
         \o trend_plot_coords(trend, k + 1, line_y, xlim, yspan, xspan)

NoCoords == [exc |-> "pending", coords |-> <<>>]

\* The outcome of convert_units: the returned list, or ZeroDivisionError
\* from the float division of the first point when a scale is 0.
convert_units(trend, line_y, xlim, yspan, xspan) ==
    IF trend # <<>> /\ (x_scale_of(xlim) = 0 \/ RIsZero(y_scale_of(line_y)))
    THEN [NoCoords EXCEPT !.exc = "ZeroDivisionError"]
    ELSE [exc |-> "none",
          coords |-> trend_plot_coords(trend, 1, line_y, xlim, yspan, xspan)]

-----------------------------------------------------------------------------
(* main *)

main_yspan == 80
main_xspan == 42
location == "location"

\* line 69: pd.DataFrame(data={"value": ys, "rel_day": xs})
frame_of(coords) ==
    [i \in 1..Len(coords) |-> [value |-> coords[i][2], rel_day |-> coords[i][1]]]

\* Variant of the merge with the frames swapped: every row of df, in its
\* order, with the date of its rel_day or a missing date.
RECURSIVE merge_points_left(_, _, _)
merge_points_left(dates, df, k) ==
    IF k > Len(df) THEN <<>>
    ELSE LET m == SelectSeq(dates, LAMBDA d : d.index = df[k].rel_day)
         IN  (IF m = <<>>
              THEN << [value |-> <<df[k].value>>, date |-> <<>>] >>
              ELSE [i \in 1..Len(m) |->
                       [value |-> <<df[k].value>>, date |-> <<m[i].date>>]])
             \o merge_points_left(dates, df, k + 1)

\* lines 71-73: pd.merge(date_df, df, left_on="index", right_on="rel_day",
\* how="left"): every row of the left frame, in its order, once per matching
\* row of the right frame (in the right frame's order), or once with missing
\* right-hand columns when nothing matches.  A missing cell is <<>>.
RECURSIVE merge_left(_, _, _)
merge_left(dates, df, k) ==
    IF k > Len(dates) THEN <<>>
    ELSE LET m == SelectSeq(df, LAMBDA r : r.rel_day = dates[k].index)
         IN  (IF m = <<>>
              THEN << [value |-> <<>>, date |-> <<dates[k].date>>] >>
              ELSE [i \in 1..Len(m) |->
                       [value |-> <<m[i].value>>, date |-> <<dates[k].date>>]])
             \o merge_left(dates, df, k + 1)

\* lines 75-77: the columns value, date, origin, graph_num
result_df(dates, coords, graph_num) ==
    LET merged == merge_left(dates, frame_of(coords), 1)
    IN  [i \in 1..Len(merged) |->
            [value |-> merged[i].value, date |-> merged[i].date,
             origin |-> location, graph_num |-> graph_num]]

\* lines 57-62 for one file: the classifier's outcome, then the mapper's.
converted(paths) ==
    LET c == categorise_paths(paths)
    IN  IF c.exc # "none" THEN [NoCoords EXCEPT !.exc = c.exc]
        ELSE convert_units(c.points, sorted_reverse(c.y_lines), c.xlim,
                           main_yspan, main_xspan)

\* line 90: except ValueError
caught(exc) == exc = "ValueError"

-----------------------------------------------------------------------------
(* Inputs *)

Min(a, b) == IF a < b THEN a ELSE b

Seg(a, b) == [start |-> a, end |-> b]

\* A horizontal single-segment path at height y from x0 to x1.
Line(y, x0, x1) == << Seg(<<x0, y>>, <<x1, y>>) >>

\* The trend paths t before position k + 1 of the single-segment paths s.
Place(s, t, k) == SubSeq(s, 1, k) \o t \o SubSeq(s, k + 1, Len(s))

Placements(s, t) == {Place(s, t, k) : k \in {0, Min(1, Len(s)), Len(s)}}

SinglePathSet == {Line(10, 0, 4), Line(20, 1, 3), Line(30, 0, 2)}

TrendPointSet == {<<0, 10>>, <<1, 20>>, <<2, 30>>}
SegmentSet == {Seg(a, b) : a, b \in TrendPointSet}
TrendSet == SeqsOf(SegmentSet, 2, MaxSegs)

TrendA == << Seg(<<0, 10>>, <<1, 20>>), Seg(<<1, 20>>, <<2, 30>>) >>
TrendB == << Seg(<<0, 30>>, <<1, 10>>), Seg(<<2, 10>>, <<2, 20>>) >>

\* Classifier inputs: every sequence of up to MaxSingles single-segment paths
\* with zero, one or two trend paths, and every trend path of up to MaxSegs
\* segments with three or five single-segment paths.
ClassifyInputs ==
    UNION {Placements(s, t) :
              s \in SeqsOf(SinglePathSet, 0, MaxSingles),
              t \in {<<>>, <<TrendA>>, <<TrendB, TrendA>>}}
    \cup
    {Place(s, <<t>>, 1) :
        s \in {<<Line(10, 0, 4), Line(20, 1, 3), Line(30, 0, 2)>>,
               <<Line(30, 0, 2), Line(10, 0, 4), Line(20, 1, 3),
                 Line(10, 0, 4), Line(20, 1, 3)>>},
        t \in TrendSet}

\* Mapper inputs.
MapPointSet == {<<x, y>> : x \in {0, 1, 2, 4}, y \in {10, 20, 30}}
LineYSet ==
    {l \in [1..3 -> {10, 20, 30}] : l[1] = 30 /\ l[1] >= l[2] /\ l[2] >= l[3]}
XlimSet == {<<0, 4>>, <<1, 2>>, <<2, 2>>}
XspanSet == {0, 5, main_xspan}
YspanSet == {main_yspan}

ConvertInputs ==
    [trend : SeqsOf(MapPointSet, 0, MaxPts), line_y : LineYSet, xlim : XlimSet,
     yspan : YspanSet, xspan : XspanSet]

\* Date lookup frames: index 1..n with consecutive dates.
DateOf(i) == 18300 + i
DateTable(n) == [i \in 1..n |-> [index |-> i, date |-> DateOf(i)]]
DateTableSet ==
    {DateTable(main_xspan), DateTable(main_xspan + 1), Reverse(DateTable(3))}

\* Charts of the batch: 2, 3 or 5 reference lines spanning x = 0..42 (or a
\* degenerate extent), and trend paths with and without gaps.
RefLines(n, x1) == [i \in 1..n |-> Line(10 * i, 0, x1)]

TrendGap == << Seg(<<0, 10>>, <<1, 20>>), Seg(<<41, 20>>, <<42, 30>>) >>
TrendBack == << Seg(<<2, 10>>, <<1, 20>>), Seg(<<1, 20>>, <<1, 30>>),
                Seg(<<1, 30>>, <<0, 10>>) >>
TrendFull == [i \in 1..main_xspan |->
                 Seg(<<i - 1, 10 + ((i - 1) % 3) * 10>>, <<i, 10 + (i % 3) * 10>>)]

ChartSet ==
    {RefLines(3, main_xspan) \o t :
        t \in {<<>>, <<TrendGap>>, <<TrendBack>>, <<TrendFull>>,
               <<TrendGap, TrendBack>>}}
    \cup {RefLines(2, main_xspan) \o <<TrendGap>>,
          RefLines(5, main_xspan) \o <<TrendBack>>,
          RefLines(3, 0) \o <<TrendBack>>}

-----------------------------------------------------------------------------
(* Specifications *)

IdleClassify == cp_paths = <<>> /\ cp_ret = NoRet
IdleConvert ==
    /\ cu_args = [trend |-> <<>>, line_y |-> <<>>, xlim |-> <<>>,
                  yspan |-> 0, xspan |-> 0]
    /\ cu_ret = NoCoords
IdleMain ==
    /\ listing = <<>> /\ date_df = <<>> /\ cursor = 1
    /\ csvs = <<>> /\ log = <<>> /\ state = "done"

\* The batch: main over a folder of up to MaxFiles files.
Init ==
    /\ IdleClassify /\ IdleConvert
    /\ listing \in SeqsOf(ChartSet, 0, MaxFiles)
    /\ date_df \in DateTableSet
    /\ cursor = 1
    /\ csvs = [i \in 1..Len(listing) |-> <<>>]
    /\ log = <<>>
    /\ state = "running"

\* lines 48-92: one iteration of the for loop, for the file at cursor.
\* An exception that `except ValueError` does not catch leaves main.
LoopBody ==
    /\ state = "running"
    /\ cursor <= Len(listing)
    /\ LET r == converted(listing[cursor])
       IN  IF r.exc = "none"
           THEN /\ csvs' = [csvs EXCEPT
                                ![cursor] = <<result_df(date_df, r.coords, cursor)>>]
                /\ cursor' = cursor + 1
                /\ UNCHANGED <<log, state>>
           ELSE IF caught(r.exc)
           THEN /\ log' = Append(log, cursor)
                /\ cursor' = cursor + 1
                /\ UNCHANGED <<csvs, state>>
           ELSE /\ state' = "aborted"
                /\ UNCHANGED <<csvs, log, cursor>>
    /\ UNCHANGED <<cp_paths, cp_ret, cu_args, cu_ret, listing, date_df>>

\* The for loop is exhausted and main returns.
LoopExit ==
    /\ state = "running"
    /\ cursor > Len(listing)
    /\ state' = "done"
    /\ UNCHANGED <<cp_paths, cp_ret, cu_args, cu_ret, listing, date_df, cursor,
                   csvs, log>>

Next == LoopBody \/ LoopExit

Spec == Init /\ [][Next]_vars

\* categorise_paths on its own.
InitClassify ==
    /\ cp_paths \in ClassifyInputs
    /\ cp_ret = NoRet
    /\ IdleConvert /\ IdleMain

Classify ==
    /\ cp_ret.exc = "pending"
    /\ cp_ret' = categorise_paths(cp_paths)
    /\ UNCHANGED <<cp_paths, cu_args, cu_ret, listing, date_df, cursor, csvs,
                   log, state>>

SpecClassify == InitClassify /\ [][Classify]_vars

\* convert_units on its own.
InitConvert ==
    /\ cu_args \in ConvertInputs
    /\ cu_ret = NoCoords
    /\ IdleClassify /\ IdleMain

Convert ==
    /\ cu_ret.exc = "pending"
    /\ cu_ret' = convert_units(cu_args.trend, cu_args.line_y, cu_args.xlim,
                               cu_args.yspan, cu_args.xspan)
    /\ UNCHANGED <<cp_paths, cp_ret, cu_args, listing, date_df, cursor, csvs,
                   log, state>>

SpecConvert == InitConvert /\ [][Convert]_vars

-----------------------------------------------------------------------------
(* Properties of categorise_paths, under SpecClassify *)

NumSingles(paths) == Cardinality({i \in DOMAIN paths : Len(paths[i]) = 1})
NumTrends(paths) == Cardinality({i \in DOMAIN paths : Len(paths[i]) > 1})

\* The first multi-segment path of the input.
TheTrend(paths) ==
    paths[CHOOSE i \in DOMAIN paths :
             /\ Len(paths[i]) > 1
             /\ \A j \in 1..(i - 1) : Len(paths[j]) <= 1]

\* The n-th single-segment path of the input, in path order.
NthSingle(paths, n) ==
    paths[CHOOSE i \in DOMAIN paths :
             /\ Len(paths[i]) = 1
             /\ Cardinality({j \in 1..(i - 1) : Len(paths[j]) = 1}) = n - 1]

Extent(path) == <<path[1].start[1], path[1].end[1]>>

\* The joints of a trend path where the end and the next start differ.
GapSet(trend) == {k \in 1..(Len(trend) - 1) : trend[k].end # trend[k + 1].start}
NumGaps(trend) == Cardinality(GapSet(trend))

\* The start y of the single-segment paths, in path order.
CandidateYs(paths) ==
    LET n == NumSingles(paths)
    IN  [k \in 1..n |-> NthSingle(paths, k)[1].start[2]]

\* The k-th smallest element of ys, counted with multiplicity.
KthSmallest(ys, k) ==
    CHOOSE v \in {ys[i] : i \in DOMAIN ys} :
        /\ Cardinality({i \in DOMAIN ys : ys[i] < v}) < k
        /\ k <= Cardinality({i \in DOMAIN ys : ys[i] <= v})

Returned == cp_ret.exc = "none"

\* C1 as stated: a trend path of N segments with G gaps yields
\* N + 1 + 2*G points.
C1_LengthTwoPerGap ==
    Returned =>
        LET t == TheTrend(cp_paths)
        IN  Len(cp_ret.points) = Len(t) + 1 + 2 * NumGaps(t)

\* C1 amended: a trend path of N segments with G gaps yields N + 1 + G
\* points, so one more gap adds exactly one point.
C1_LengthOnePerGap ==
    Returned =>
        LET t == TheTrend(cp_paths)
        IN  Len(cp_ret.points) = Len(t) + 1 + NumGaps(t)

C1_Witness ==
    /\ Returned
    /\ Len(TheTrend(cp_paths)) >= 3
    /\ NumGaps(TheTrend(cp_paths)) = 2

\* C3: categorise_paths raises, and returns nothing, exactly when the number
\* of single-segment paths is neither 3 nor 5 or the number of trend paths is
\* not 1.
C3_FailsIffMalformed ==
    cp_ret.exc # "pending" =>
        /\ Returned <=> (/\ NumSingles(cp_paths) \in {3, 5}
                         /\ NumTrends(cp_paths) = 1)
        /\ ~Returned => /\ cp_ret.exc \in {"ValueError", "AssertionError"}
                        /\ cp_ret.xlim = <<>>
                        /\ cp_ret.y_lines = <<>>
                        /\ cp_ret.points = <<>>

C3_Witness ==
    /\ cp_ret.exc = "AssertionError"
    /\ NumSingles(cp_paths) = 5
    /\ NumTrends(cp_paths) = 2

\* C6: with five single-segment paths the returned y-values are the 5th, 3rd
\* and 1st smallest candidate (descending); with three they are the three
\* candidates in descending order.
C6_ReferenceLines ==
    Returned =>
        LET ys == CandidateYs(cp_paths)
        IN  /\ Len(ys) = 5 =>
                cp_ret.y_lines
                  = <<KthSmallest(ys, 5), KthSmallest(ys, 3), KthSmallest(ys, 1)>>
            /\ Len(ys) = 3 =>
                cp_ret.y_lines
                  = <<KthSmallest(ys, 3), KthSmallest(ys, 2), KthSmallest(ys, 1)>>
            /\ Len(cp_ret.y_lines) = 3
            /\ cp_ret.y_lines[1] >= cp_ret.y_lines[2]
            /\ cp_ret.y_lines[2] >= cp_ret.y_lines[3]

C6_Witness ==
    /\ Returned
    /\ CandidateYs(cp_paths) = <<20, 30, 10, 20, 10>>
    /\ cp_ret.y_lines = <<30, 20, 10>>

\* C7: three reference lines and a gap-free trend path of N segments yield the
\* N + 1 points first start, later starts in path order, last end, and three
\* reference lines.
C7_GapFreePoints ==
    (Returned /\ NumSingles(cp_paths) = 3 /\ NumGaps(TheTrend(cp_paths)) = 0) =>
        LET t == TheTrend(cp_paths)
            n == Len(t)
        IN  /\ Len(cp_ret.points) = n + 1
            /\ \A k \in 1..n : cp_ret.points[k] = t[k].start
            /\ cp_ret.points[n + 1] = t[n].end
            /\ Len(cp_ret.y_lines) = 3

C7_Witness ==
    /\ Returned
    /\ NumSingles(cp_paths) = 3
    /\ NumGaps(TheTrend(cp_paths)) = 0
    /\ Len(TheTrend(cp_paths)) >= 3
    /\ cp_ret.points[1] # cp_ret.points[2]
    /\ cp_ret.points[Len(cp_ret.points)] # cp_ret.points[2]

\* C9: the returned x limits are the (start x, end x) of the second
\* single-segment path in path order, with three and with five candidates.
C9_XlimFromSecondSingle ==
    Returned => cp_ret.xlim = Extent(NthSingle(cp_paths, 2))

C9_Witness ==
    /\ Returned
    /\ NumSingles(cp_paths) = 5
    /\ cp_ret.xlim # Extent(NthSingle(cp_paths, 1))
    /\ cp_ret.xlim # Extent(NthSingle(cp_paths, 3))
    /\ NthSingle(cp_paths, 2)[1].start[2] # cp_ret.y_lines[2]

-----------------------------------------------------------------------------
(* Properties of convert_units, under SpecConvert *)

Converted == cu_ret.exc = "none"

\* The reference lines are strictly descending with equal distances.
Symmetric(line_y) ==
    /\ line_y[1] > line_y[2]
    /\ line_y[1] - line_y[2] = line_y[2] - line_y[3]

C8_OrderAndLengthPreserved ==
    Converted =>
        /\ Len(cu_ret.coords) = Len(cu_args.trend)
        /\ \A i \in DOMAIN cu_args.trend :
              cu_ret.coords[i]
                = convert_units(<<cu_args.trend[i]>>, cu_args.line_y,
                                cu_args.xlim, cu_args.yspan, cu_args.xspan).coords[1]

C8_Witness ==
    /\ Converted
    /\ Len(cu_args.trend) = 2
    /\ cu_args.trend[1][1] > cu_args.trend[2][1]
    /\ cu_ret.coords[1][1] = cu_ret.coords[2][1]
    /\ cu_ret.coords[1][2] # cu_ret.coords[2][2]

InLimits(x) == cu_args.xlim[1] <= x /\ x <= cu_args.xlim[2]

\* C10: with x_min < x_max and xspan >= 0 a point with x in [x_min, x_max]
\* gets a day index in 1..xspan + 1, x_min gets 1, x_max gets xspan + 1, and
\* the day index is non-decreasing in x.
C10_DayIndexRange ==
    (Converted /\ cu_args.xlim[1] < cu_args.xlim[2] /\ cu_args.xspan >= 0) =>
        /\ \A i \in DOMAIN cu_args.trend :
              LET x == cu_args.trend[i][1]
                  d == cu_ret.coords[i][1]
              IN  InLimits(x) =>
                    /\ 1 <= d /\ d <= cu_args.xspan + 1
                    /\ x = cu_args.xlim[1] => d = 1
                    /\ x = cu_args.xlim[2] => d = cu_args.xspan + 1
        /\ \A i, j \in DOMAIN cu_args.trend :
              (/\ InLimits(cu_args.trend[i][1])
               /\ InLimits(cu_args.trend[j][1])
               /\ cu_args.trend[i][1] <= cu_args.trend[j][1])
                 => cu_ret.coords[i][1] <= cu_ret.coords[j][1]

C10_Witness ==
    /\ Converted
    /\ cu_args.xlim = <<0, 4>>
    /\ cu_args.xspan = main_xspan
    /\ Len(cu_args.trend) = 2
    /\ cu_args.trend[1][1] = 4 /\ cu_ret.coords[1][1] = main_xspan + 1
    /\ cu_args.trend[2][1] = 1 /\ cu_ret.coords[2][1] = 11

-----------------------------------------------------------------------------
(* Properties of main, under Spec *)

\* The file's reference-line count is neither 3 nor 5, or it is and the
\* number of trend paths is not 1.
Malformed(paths) ==
    \/ NumSingles(paths) \notin {3, 5}
    \/ NumTrends(paths) # 1

\* C2: a malformed file is skipped: it never makes the batch stop before the
\* remaining files, and no CSV is written for it.
C2_MalformedNeverAborts ==
    /\ state = "aborted" => ~Malformed(listing[cursor])
    /\ \A i \in DOMAIN listing : Malformed(listing[i]) => csvs[i] = <<>>
    /\ state = "done" =>
          \A i \in DOMAIN listing :
              Malformed(listing[i]) <=> \E k \in DOMAIN log : log[k] = i

Written(i) == i \in DOMAIN csvs /\ csvs[i] # <<>>

\* The (day index, value) pairs of file i's trend points, in trend order.
PointsOf(i) == converted(listing[i]).coords

\* The position in date_df of the row holding date d.
DatePos(d) == CHOOSE k \in DOMAIN date_df : date_df[k].date = d

\* C5 as stated: the rows of a written file are one per trend point, in trend
\* point order, each with the date of its day index or a null date.
C5_OneRowPerTrendPoint ==
    \A i \in DOMAIN listing :
        Written(i) =>
            LET rows == csvs[i][1]
                pts == PointsOf(i)
            IN  /\ Len(rows) = Len(pts)
                /\ \A j \in DOMAIN pts :
                      /\ rows[j].value = <<pts[j][2]>>
                      /\ rows[j].date
                           = (IF \E k \in DOMAIN date_df : date_df[k].index = pts[j][1]
                              THEN <<date_df[CHOOSE k \in DOMAIN date_df :
                                                date_df[k].index = pts[j][1]].date>>
                              ELSE <<>>)

\* C5 amended: the rows of a written file follow the date table: every row
\* has a date, the rows are in date-table order, and the rows of one date
\* carry the values of the trend points with that day index in trend order,
\* or one null value when there is none; a trend point whose day index is
\* not in the table has no row.
C5_OneRowPerDate ==
    \A i \in DOMAIN listing :
        Written(i) =>
            LET rows == csvs[i][1]
                pts == PointsOf(i)
            IN  /\ \A j \in DOMAIN rows :
                      /\ Len(rows[j].date) = 1
                      /\ \E k \in DOMAIN date_df : date_df[k].date = rows[j].date[1]
                      /\ rows[j].origin = location /\ rows[j].graph_num = i
                /\ \A a, b \in DOMAIN rows :
                      a < b => DatePos(rows[a].date[1]) <= DatePos(rows[b].date[1])
                /\ \A k \in DOMAIN date_df :
                      LET got == SelectSeq(rows,
                                     LAMBDA r : r.date = <<date_df[k].date>>)
                          hit == SelectSeq(pts,
                                     LAMBDA q : q[1] = date_df[k].index)
                      IN  IF hit = <<>>
                          THEN Len(got) = 1 /\ got[1].value = <<>>
                          ELSE /\ Len(got) = Len(hit)
                               /\ \A m \in DOMAIN hit : got[m].value = <<hit[m][2]>>

\* A table of indices 1..42 and a chart of 43 trend points with day indices
\* 1..43: 42 rows are written.
C5_Witness ==
    /\ Len(date_df) = main_xspan
    /\ \E i \in DOMAIN listing :
          /\ Written(i)
          /\ Len(PointsOf(i)) = main_xspan + 1
          /\ \A j \in 1..(main_xspan + 1) : PointsOf(i)[j][1] = j
          /\ Len(csvs[i][1]) = main_xspan
          /\ \A j \in DOMAIN csvs[i][1] : csvs[i][1][j].value # <<>>

=============================================================================
